---- MODULE Spec2Model ----
(***************************************************************************)
(* A model of the JupyterLab app-mode helper:                              *)
(*   - jupyter_lab_config.py: the browser resolver                         *)
(*     (find_flatpak_browser() or find_browser()) and the configuration    *)
(*     lines that use its result;                                          *)
(*   - setup_jupyter.py: the command line script that ensures the conda    *)
(*     environment, stages files in its Menu directory and installs or     *)
(*     removes the shortcut.                                               *)
(* Strings the code takes apart (paths, command lines, lines of output)    *)
(* are sequences of tokens, so that joining, stripping, replacing and      *)
(* matching are computed and not assumed.                                  *)
(***************************************************************************)
EXTENDS Integers, Sequences, FiniteSets, TLC

VARIABLES
    system,             \* platform.system()
    files,              \* the paths that exist on disk (each a sequence of components)
    PATH,               \* environ["PATH"].split(":") (Linux)
    registry,           \* HKEY_CLASSES_ROOT\http\shell\open\command (Windows)
    bpc,                \* where the configuration script is
    flatpak_bin,        \* find_flatpak_browser: the launcher found in PATH
    flatpak_listed,     \* find_flatpak_browser: what the list subcommand gave
    flatpak_cmd,        \* the value of find_flatpak_browser()
    direct_cmd,         \* the value of find_browser()
    browser_cmd,        \* jupyter_lab_config.py: browser_cmd
    server_browser,     \* c.ServerApp.browser
    warned,             \* the "No Chromium-based browser" warning was logged
    bexc,               \* the exception the configuration script died of
    \* the host of setup_jupyter.py
    CONDA_PREFIX,       \* environ["CONDA_PREFIX"] of the running process
    CONDA_EXE,          \* environ["CONDA_EXE"]
    menuinst,           \* the version of menuinst in the base environment
    env_exists,         \* conda knows an environment of the target name
    env_pkgs,           \* the packages installed in it
    envs_in_base,       \* conda keeps named environments in <base>/envs
    condarc,            \* <env_prefix>/.condarc
    menu_dir,           \* <env_prefix>/Menu: absent, a directory, a file
    menu_files,         \* the files in <env_prefix>/Menu
    repo_is_menu,       \* the repository directory is that Menu directory
    shortcut_installed, \* the platform's menu holds the shortcut
    \* the run of setup_jupyter.py
    pc,                 \* where the running process is
    remove_shortcut,    \* args.remove of the running process
    stack,              \* the processes waiting for the running one
    exc,                \* the exception that is propagating
    retval,             \* what main returned
    exit_code,          \* the exit code of the process that ended last
    size_exp,           \* svg_to_icns: n of the size 2**n being converted
    log,                \* what the run did so far, in order
    staged,             \* the files install runs wrote to the Menu directory
    calls,              \* ensure_env called directly: the calls that returned
    pkgs_after          \* ensure_env called directly: the packages after each call

svars == <<CONDA_PREFIX, CONDA_EXE, menuinst, env_exists, env_pkgs, envs_in_base,
           condarc, menu_dir, menu_files, repo_is_menu, shortcut_installed,
           pc, remove_shortcut, stack, exc, retval, exit_code, size_exp, log,
           staged, calls, pkgs_after>>

bvars == <<system, files, PATH, registry, bpc, flatpak_bin, flatpak_listed,
           flatpak_cmd, direct_cmd, browser_cmd, server_browser, warned, bexc>>

vars == <<bvars, svars>>

(***************************************************************************)
(* Values and strings                                                      *)
(***************************************************************************)

\* Python's None for the values that are command strings: like the empty
\* string it is false in `a or b` and in `if browser_cmd`.
None == <<>>

NoBExc == "none"

SupportedSystems == {"Windows", "Linux", "Darwin"}

\* A platform none of the branches names.
Systems == SupportedSystems \cup {"FreeBSD"}

\* Tokens of the strings.
Q == "\""
SP == " "
NL == "\n"
PCT1 == "%1"
Whitespace == {SP, NL}

\* os.sep and os.pathsep of the platform.
Sep(sys) == IF sys = "Windows" THEN "\\" ELSE "/"

pathsep(sys) == IF sys = "Windows" THEN ";" ELSE ":"

RECURSIVE Join(_, _)
\* sep.join(parts), as tokens.
Join(parts, sep) ==
    IF Len(parts) = 0 THEN <<>>
    ELSE IF Len(parts) = 1 THEN <<parts[1]>>
    ELSE <<parts[1], sep>> \o Join(Tail(parts), sep)

\* str(path): the components joined by the platform's separator.
PathStr(path, sys) == Join(path, Sep(sys))

StartsWith(s, pre) ==
    Len(pre) <= Len(s) /\ SubSeq(s, 1, Len(pre)) = pre

\* str.endswith
EndsWith(s, suf) ==
    Len(suf) <= Len(s) /\ SubSeq(s, Len(s) - Len(suf) + 1, Len(s)) = suf

\* `sub in s` for strings
Contains(s, sub) ==
    \E i \in 1..(Len(s) + 1) :
        i + Len(sub) - 1 <= Len(s) /\ SubSeq(s, i, i + Len(sub) - 1) = sub

RECURSIVE Replace(_, _)
\* s.replace(old, ""): every occurrence, left to right, without overlap.
Replace(s, old) ==
    IF Len(s) = 0 \/ Len(old) = 0 THEN s
    ELSE IF StartsWith(s, old) THEN Replace(SubSeq(s, Len(old) + 1, Len(s)), old)
    ELSE <<Head(s)>> \o Replace(Tail(s), old)

RECURSIVE LStrip(_)
LStrip(s) ==
    IF Len(s) > 0 /\ Head(s) \in Whitespace THEN LStrip(Tail(s)) ELSE s

RECURSIVE RStrip(_)
RStrip(s) ==
    IF Len(s) > 0 /\ s[Len(s)] \in Whitespace
    THEN RStrip(SubSeq(s, 1, Len(s) - 1)) ELSE s

\* str.strip()
Strip(s) == RStrip(LStrip(s))

(***************************************************************************)
(* jupyter_lab_config.py: the browser resolver                             *)
(***************************************************************************)

\* The rest of every command the resolver returns.
app_args == <<SP, "--start-maximized", SP, "--profile-directory=Default", SP, "--app=%s">>

\* find_flatpak_browser: flatpak_apps, in the order they are tried.
flatpak_apps ==
    <<"com.google.Chrome", "com.microsoft.Edge", "com.brave.Browser", "org.chromium.Chromium">>

\* The directories PATH may name (Linux).
PathDirs == {"/usr/bin", "/usr/local/bin"}

\* find_browser: cmds of each branch, each a relative path in components.
cmds(sys) ==
    CASE sys = "Windows" ->
            << <<"Google", "Chrome", "Application", "chrome.exe">>,
               <<"BraveSoftware", "Brave-Browser", "Application", "brave.exe">>,
               <<"Microsoft", "Edge", "Application", "msedge.exe">> >>
      [] sys = "Linux" ->
            << <<"google-chrome">>, <<"microsoft-edge">>, <<"brave">>, <<"chromium">> >>
      [] sys = "Darwin" ->
            << <<"Contents", "MacOS", "Google Chrome">>,
               <<"Contents", "MacOS", "Microsoft Edge">>,
               <<"Contents", "MacOS", "Brave Browser">>,
               <<"Contents", "MacOS", "Chromium">> >>

\* f"/Applications/{Path(cmd).name}.app" as one path root.
AppBundle(cmd) ==
    CASE cmd[Len(cmd)] = "Google Chrome" -> "/Applications/Google Chrome.app"
      [] cmd[Len(cmd)] = "Microsoft Edge" -> "/Applications/Microsoft Edge.app"
      [] cmd[Len(cmd)] = "Brave Browser" -> "/Applications/Brave Browser.app"
      [] cmd[Len(cmd)] = "Chromium" -> "/Applications/Chromium.app"

\* find_browser: path_elements of each branch; environ["ProgramFiles"] and
\* environ["ProgramFiles(x86)"] stand for the directories they name.
path_elements(sys, path) ==
    CASE sys = "Windows" -> <<"ProgramFiles", "ProgramFiles(x86)">>
      [] sys = "Linux" -> path
      [] sys = "Darwin" -> [i \in 1..Len(cmds(sys)) |-> AppBundle(cmds(sys)[i])]

\* A slip for product: zip(a, b), which pairs the two lists position by position.
product_as_zip(a, b) ==
    [k \in 1..(IF Len(a) < Len(b) THEN Len(a) ELSE Len(b)) |-> <<a[k], b[k]>>]

\* A slip for product: the pairs with the second component varying slowest,
\* as product(b, a) would order them.
product_root_major(a, b) ==
    [k \in 1..(Len(a) * Len(b)) |->
        <<a[((k - 1) % Len(a)) + 1], b[((k - 1) \div Len(a)) + 1]>>]

\* itertools.product(a, b): the pairs, the first component varying slowest.
product(a, b) ==
    [k \in 1..(Len(a) * Len(b)) |->
        <<a[((k - 1) \div Len(b)) + 1], b[((k - 1) % Len(b)) + 1]>>]

\* path_element / cmd
JoinPath(path_element, cmd) == <<path_element>> \o cmd

\* f'"{browser}" --start-maximized --profile-directory=Default --app=%s'
QuotedCmd(pathstr) == <<Q>> \o pathstr \o <<Q>> \o app_args

\* The command find_flatpak_browser returns for one application.
FlatpakCmd(flatpak_app) ==
    <<"flatpak", SP, "run", SP, "--filesystem=~/.local/share/jupyter/runtime", SP,
      flatpak_app>> \o app_args

\* The names the pattern \w+\.exe matches, among the names of the model.
MatchesWordExe(name) ==
    name \in {"chrome.exe", "brave.exe", "msedge.exe", "vivaldi.exe", "firefox.exe"}

\* search(r"\\Application\\\w+\.exe$", s)
SearchApplicationExe(s) ==
    /\ Len(s) >= 4
    /\ s[Len(s) - 3] = "\\"
    /\ s[Len(s) - 2] = "Application"
    /\ s[Len(s) - 1] = "\\"
    /\ MatchesWordExe(s[Len(s)])

\* QueryValue(k, "command").replace('"%1"', "").replace('"', "").strip()
default_browser_cmd(value) == Strip(Replace(Replace(value, <<Q, PCT1, Q>>), <<Q>>))

\* Line 69: the default browser's command looks like a known browser's.
LooksLikeChromium(cmd, sys) ==
    \/ \E i \in 1..Len(cmds(sys)) : EndsWith(cmd, Join(cmds(sys)[i], pathsep(sys)))
    \/ SearchApplicationExe(cmd)

\* What the registry may hold for the http handler: no key at all, or a
\* command line.
NoKey == <<"FileNotFoundError">>

RegistryValues ==
    { NoKey,
      \* "C:\...\chrome.exe" "%1"
      <<Q>> \o PathStr(<<"ProgramFiles", "Google", "Chrome", "Application", "chrome.exe">>, "Windows")
          \o <<Q, SP, Q, PCT1, Q>>,
      \* "C:\...\msedge.exe" --single-argument %1
      <<Q>> \o PathStr(<<"ProgramFiles(x86)", "Microsoft", "Edge", "Application", "msedge.exe">>, "Windows")
          \o <<Q, SP, "--single-argument", SP, PCT1>>,
      \* "C:\...\vivaldi.exe" "%1": Chromium-based, none of cmds
      <<Q>> \o PathStr(<<"LocalAppData", "Vivaldi", "Application", "vivaldi.exe">>, "Windows")
          \o <<Q, SP, Q, PCT1, Q>>,
      \* "C:\...\firefox.exe" -osint -url "%1"
      <<Q>> \o PathStr(<<"ProgramFiles", "Mozilla Firefox", "firefox.exe">>, "Windows")
          \o <<Q, SP, "-osint", SP, "-url", SP, Q, PCT1, Q>> }

\* The lines `flatpak list --app --columns=application` may print.
FlatpakLines ==
    { <<"Application ID", NL>>,
      <<"com.google.Chrome", NL>>,
      <<"org.chromium.Chromium", SP, NL>>,
      <<"org.mozilla.firefox", NL>> }

\* [_.strip() for _ in installed_flatpaks]
StrippedLines(lines) == {Strip(lines[i]) : i \in 1..Len(lines)}

\* flatpak_output.readlines()[1:]
installed_flatpaks(lines) == IF Len(lines) = 0 THEN <<>> ELSE Tail(lines)

RECURSIVE FirstFlatpak(_, _)
\* Lines 44-46: the first of apps that is among the installed ones, or None.
FirstFlatpak(apps, installed) ==
    IF Len(apps) = 0 THEN None
    ELSE IF <<Head(apps)>> \in StrippedLines(installed) THEN FlatpakCmd(Head(apps))
    ELSE FirstFlatpak(Tail(apps), installed)

RECURSIVE FirstFlatpakBin(_, _)
\* Lines 17-23: the first directory of PATH that holds a file named flatpak.
FirstFlatpakBin(path, fs) ==
    IF Len(path) = 0 THEN None
    ELSE IF <<Head(path), "flatpak">> \in fs THEN <<Head(path), "flatpak">>
    ELSE FirstFlatpakBin(Tail(path), fs)

RECURSIVE FirstExisting(_, _, _)
\* Lines 88-91: the command of the first candidate that exists, or None.
FirstExisting(pairs, fs, sys) ==
    IF Len(pairs) = 0 THEN None
    ELSE LET browser == JoinPath(Head(pairs)[2], Head(pairs)[1])
         IN  IF browser \in fs THEN QuotedCmd(PathStr(browser, sys))
             ELSE FirstExisting(Tail(pairs), fs, sys)

\* The number of files of the host that the resolver could look at.
MaxFiles == 3

\* The number of lines the flatpak list subcommand prints.
MaxLines == 2

\* Every path find_browser or find_flatpak_browser may test on a platform.
Candidates(sys) ==
    CASE sys = "Linux" ->
            {JoinPath(d, c) : d \in PathDirs,
                              c \in {cmds(sys)[i] : i \in 1..Len(cmds(sys))} \cup {<<"flatpak">>}}
      [] sys \in {"Windows", "Darwin"} ->
            LET pairs == product(cmds(sys), path_elements(sys, <<>>))
            IN  {JoinPath(pairs[k][2], pairs[k][1]) : k \in 1..Len(pairs)}
      [] OTHER -> {}

\* The values of environ["PATH"].split(":"): the directories in any order.
PathValues ==
    {<<>>} \cup {<<d>> : d \in PathDirs}
           \cup {p \in PathDirs \X PathDirs : p[1] # p[2]}

\* The sequences of at most n lines of output.
LineSeqs(n) == UNION {[1..k -> FlatpakLines] : k \in 0..n}

\* find_flatpak_browser, lines 13-23: None when there is nothing to ask,
\* else the launcher to run.
find_flatpak_bin(sys, path, fs) ==
    IF sys # "Linux" THEN None ELSE FirstFlatpakBin(path, fs)

\* find_flatpak_browser, lines 27-46, from the outcome of the list subcommand.
find_flatpak_browser(listed) ==
    IF ~listed.ok THEN None
    ELSE FirstFlatpak(flatpak_apps, installed_flatpaks(listed.lines))

\* find_browser, lines 49-91: the exception it raises, or the value it returns.
find_browser(sys, fs, path, reg) ==
    IF sys \notin SupportedSystems
    THEN [exc |-> "UnboundLocalError", cmd |-> None]
    ELSE IF sys = "Windows" /\ reg # NoKey
                            /\ LooksLikeChromium(default_browser_cmd(reg), sys)
    THEN [exc |-> NoBExc, cmd |-> QuotedCmd(default_browser_cmd(reg))]
    ELSE [exc |-> NoBExc,
          cmd |-> FirstExisting(product(cmds(sys), path_elements(sys, path)), fs, sys)]

NotListed == [ok |-> FALSE, lines |-> <<>>]

\* No exception is propagating.
NoExc == [type |-> "none", rc |-> 0]

\* setup_jupyter.py is not running and has not run.
SetupIdle ==
    /\ CONDA_PREFIX = "unset"
    /\ CONDA_EXE = "unset"
    /\ menuinst = <<>>
    /\ env_exists = FALSE
    /\ env_pkgs = {}
    /\ envs_in_base = TRUE
    /\ condarc = <<>>
    /\ menu_dir = "absent"
    /\ menu_files = {}
    /\ repo_is_menu = FALSE
    /\ shortcut_installed = FALSE
    /\ pc = "off"
    /\ remove_shortcut = FALSE
    /\ stack = <<>>
    /\ exc = NoExc
    /\ retval = 0
    /\ exit_code = 0
    /\ size_exp = 0
    /\ log = <<>>
    /\ staged = {}
    /\ calls = 0
    /\ pkgs_after = <<>>

InitBrowser ==
    /\ system \in Systems
    /\ files \in {fs \in SUBSET Candidates(system) : Cardinality(fs) <= MaxFiles}
    /\ PATH \in (IF system = "Linux" THEN PathValues ELSE {<<>>})
    /\ registry \in (IF system = "Windows" THEN RegistryValues ELSE {NoKey})
    /\ bpc = "find_flatpak_browser"
    /\ flatpak_bin = None
    /\ flatpak_listed = NotListed
    /\ flatpak_cmd = None
    /\ direct_cmd = None
    /\ browser_cmd = None
    /\ server_browser = None
    /\ warned = FALSE
    /\ bexc = NoBExc
    /\ SetupIdle

\* Lines 13-23: look for the launcher; without one the function returns None.
FindFlatpakBin ==
    /\ bpc = "find_flatpak_browser"
    /\ flatpak_bin' = find_flatpak_bin(system, PATH, files)
    /\ bpc' = IF flatpak_bin' = None THEN "flatpak_returned" ELSE "flatpak_list"
    /\ UNCHANGED <<system, files, PATH, registry, flatpak_listed, flatpak_cmd,
                   direct_cmd, browser_cmd, server_browser, warned, bexc>>
    /\ UNCHANGED svars

\* Lines 25-46: run the list subcommand and match its output.
FlatpakList ==
    /\ bpc = "flatpak_list"
    /\ \E listed \in {NotListed} \cup {[ok |-> TRUE, lines |-> l] : l \in LineSeqs(MaxLines)} :
        /\ flatpak_listed' = listed
        /\ flatpak_cmd' = find_flatpak_browser(listed)
    /\ bpc' = "flatpak_returned"
    /\ UNCHANGED <<system, files, PATH, registry, flatpak_bin, direct_cmd,
                   browser_cmd, server_browser, warned, bexc>>
    /\ UNCHANGED svars

\* Line 100, the left operand is true: find_browser is not called.
UseFlatpak ==
    /\ bpc = "flatpak_returned"
    /\ flatpak_cmd # None
    /\ browser_cmd' = flatpak_cmd
    /\ bpc' = "configure"
    /\ UNCHANGED <<system, files, PATH, registry, flatpak_bin, flatpak_listed,
                   flatpak_cmd, direct_cmd, server_browser, warned, bexc>>
    /\ UNCHANGED svars

\* Line 100, the left operand is None: the value is find_browser()'s.
FindBrowser ==
    /\ bpc = "flatpak_returned"
    /\ flatpak_cmd = None
    /\ LET r == find_browser(system, files, PATH, registry)
       IN  /\ bexc' = r.exc
           /\ direct_cmd' = r.cmd
           /\ browser_cmd' = r.cmd
           /\ bpc' = IF r.exc = NoBExc THEN "configure" ELSE "raised"
    /\ UNCHANGED <<system, files, PATH, registry, flatpak_bin, flatpak_listed,
                   flatpak_cmd, server_browser, warned>>
    /\ UNCHANGED svars

\* Lines 102-108: use the command, or warn that there is none.
Configure ==
    /\ bpc = "configure"
    /\ IF browser_cmd # None
       THEN server_browser' = browser_cmd /\ warned' = FALSE
       ELSE server_browser' = server_browser /\ warned' = TRUE
    /\ bpc' = "done"
    /\ UNCHANGED <<system, files, PATH, registry, flatpak_bin, flatpak_listed,
                   flatpak_cmd, direct_cmd, browser_cmd, bexc>>
    /\ UNCHANGED svars

NextBrowser ==
    \/ FindFlatpakBin
    \/ FlatpakList
    \/ UseFlatpak
    \/ FindBrowser
    \/ Configure

SpecBrowser == InitBrowser /\ [][NextBrowser]_vars

(***************************************************************************)
(* setup_jupyter.py: values                                                *)
(***************************************************************************)

\* The configuration script is not running.
ResolverIdle ==
    /\ files = {}
    /\ PATH = <<>>
    /\ registry = NoKey
    /\ bpc = "off"
    /\ flatpak_bin = None
    /\ flatpak_listed = NotListed
    /\ flatpak_cmd = None
    /\ direct_cmd = None
    /\ browser_cmd = None
    /\ server_browser = None
    /\ warned = FALSE
    /\ bexc = NoBExc

\* The non-zero return codes a failing subprocess may give (exit statuses).
FailRCs == {2, 3}

\* main returned None.
RetNone == -1

\* The process has not exited.
NotExited == -1

\* menuinst_gt_v2_present: the least major version accepted.
MinMajor == 2

\* svg_to_icns: range(4, 11), the exponents of the icon sizes.
SizeExpFirst == 4

SizeExpStop == 11

\* ensure_env: the packages an existing environment must hold.
RequiredPkgs == {"jupyterlab", "nb_conda_kernels", "ipykernel"}

\* A slip for CreatePkgs: the list without ipykernel.
CreatePkgs_no_ipykernel ==
    {"jupyterlab", "nb_conda_kernels", "nbconvert", "jupyterlab-nbconvert-nocode",
     "jupyterlab-git", "jupyterlab-lsp", "jupyterlab_code_formatter", "jupyterlab-day",
     "jupyterlab-night", "jupyterlab_pygments", "black", "isort", "python-lsp-server",
     "ipywidgets", "panel", "pandas", "numpy", "scipy", "statsmodels",
     "openpyxl", "tabulate", "matplotlib", "toolz", "more-itertools", "ipyparallel",
     "requests", "tqdm", "rich", "rich-with-jupyter", "sqlalchemy"}

\* ensure_env: the packages a new environment is created with.
CreatePkgs ==
    {"jupyterlab", "nb_conda_kernels", "nbconvert", "jupyterlab-nbconvert-nocode",
     "jupyterlab-git", "jupyterlab-lsp", "jupyterlab_code_formatter", "jupyterlab-day",
     "jupyterlab-night", "jupyterlab_pygments", "black", "isort", "python-lsp-server",
     "ipykernel", "ipywidgets", "panel", "pandas", "numpy", "scipy", "statsmodels",
     "openpyxl", "tabulate", "matplotlib", "toolz", "more-itertools", "ipyparallel",
     "requests", "tqdm", "rich", "rich-with-jupyter", "sqlalchemy"}

\* The .condarc ensure_env writes.
CondarcText == <<"pip_interop_enabled: true", "channels: [conda-forge]">>

\* The names of the files in the Menu directory.
SpecFile == "jupyterlab_shortcut.json"

ConfigFile == "jupyter_lab_config.py"

\* download_icon_file: the suffix of the icon's URL on each platform.
IconSuffix(sys) ==
    CASE sys = "Windows" -> ".ico"
      [] sys = "Linux" -> ".png"
      [] sys = "Darwin" -> ".svg"

\* f"jupyterlab{file_extension}"
IconName(suffix) ==
    CASE suffix = ".ico" -> "jupyterlab.ico"
      [] suffix = ".png" -> "jupyterlab.png"
      [] suffix = ".svg" -> "jupyterlab.svg"
      [] suffix = ".icns" -> "jupyterlab.icns"

\* main, lines 350-358: the icon file the remove branch deletes.
RemovedIcon(sys) ==
    CASE sys = "Windows" -> IconName(".ico")
      [] sys = "Linux" -> IconName(".png")
      [] sys = "Darwin" -> IconName(".ico")

\* One component of a version string: its leading digits and what follows.
V(n) == [n |-> n, rest |-> ""]

\* pkg["version"].split(".") for the versions of menuinst the base
\* environment may hold: 1.4.19, 2.0.2, 2.1.0rc1, 2.1; <<>>: not installed.
MenuinstVersions ==
    { <<>>,
      <<V(1), V(4), V(19)>>,
      <<V(2), V(0), V(2)>>,
      <<V(2), V(1), [n |-> 0, rest |-> "rc1"]>>,
      <<V(2), V(1)>> }

\* The version `conda install menuinst>=2.0.0` leaves in the base environment.
InstalledMenuinst == <<V(2), V(0), V(2)>>

\* What the user may type at the prompt; "^C" interrupts instead.
Answers == {"y", "Yes", "n", "", "^C"}

\* str.lower()
Lower(str) == IF str = "Yes" THEN "yes" ELSE str

Raise(type, rc) == [type |-> type, rc |-> rc]

\* The process the events belong to: its depth in the chain of re-invocations
\* (or, for ensure_env called directly, the number of the call).
Frame == Len(stack) + calls

\* One entry of the log.
Ev(kind, what, rc, checked, args) ==
    [frame |-> Frame, kind |-> kind, what |-> what, rc |-> rc, checked |-> checked,
     args |-> args]

\* sys.argv of the running process, as the set of its flags.
argv == IF remove_shortcut THEN {"--remove"} ELSE {}

\* What a conda list --json call may give: its return code and whether its
\* output parses as JSON.
ListOutcomes ==
    {[rc |-> 0, json |-> TRUE], [rc |-> 0, json |-> FALSE]}
        \cup {[rc |-> r, json |-> FALSE] : r \in FailRCs}

\* in_base_env, with get_current_prefix and get_base_prefix.
in_base_env(prefix, conda_exe) ==
    IF prefix = "unset" \/ conda_exe = "unset"
    THEN [exc |-> Raise("RuntimeError", 0), val |-> FALSE]
    ELSE [exc |-> NoExc, val |-> (prefix = "base")]

\* menuinst_gt_v2_present, with get_menuinst_version, from the outcome of
\* `conda list --prefix <base> --json` (check=True).
menuinst_gt_v2_present(out, version) ==
    IF out.rc # 0 THEN [exc |-> Raise("CalledProcessError", out.rc), val |-> FALSE]
    \* JSONDecodeError(msg) lacks two arguments: the re-raise is a TypeError
    ELSE IF ~out.json THEN [exc |-> Raise("TypeError", 0), val |-> FALSE]
    ELSE IF version = <<>> THEN [exc |-> Raise("RuntimeError", 0), val |-> FALSE]
    \* major, minor, patch = ...: the unpacking needs three components
    ELSE IF Len(version) # 3 THEN [exc |-> Raise("ValueError", 0), val |-> FALSE]
    ELSE IF version[1].rest # "" THEN [exc |-> Raise("ValueError", 0), val |-> FALSE]
    ELSE [exc |-> NoExc, val |-> (version[1].n >= MinMajor /\ version[3].rest = "")]

\* A slip for ExitCode: every exception ends the process with code 1.
ExitCode_one(e, ret) ==
    IF e = NoExc THEN (IF ret = RetNone THEN 0 ELSE ret)
    ELSE 1

\* Lines 454-467: the exit code for what main returned or raised.
ExitCode(e, ret) ==
    IF e = NoExc THEN (IF ret = RetNone THEN 0 ELSE ret)
    ELSE IF e.type = "CalledProcessError" THEN e.rc
    ELSE 1

(***************************************************************************)
(* setup_jupyter.py: the run of the script                                 *)
(***************************************************************************)

fixedVars == <<CONDA_EXE, envs_in_base, repo_is_menu>>

envVars == <<env_exists, env_pkgs, condarc>>

menuVars == <<menu_dir, menu_files, staged>>

driverVars == <<calls, pkgs_after>>

\* The states of the host before the script ever ran.
InitHost ==
    /\ ResolverIdle
    /\ \E e \in {<<"unset", "unset">>, <<"unset", "set">>, <<"base", "set">>, <<"env", "set">>} :
        /\ CONDA_PREFIX = e[1]
        /\ CONDA_EXE = e[2]
    /\ menuinst \in MenuinstVersions
    /\ envs_in_base \in BOOLEAN
    /\ env_exists \in BOOLEAN
    /\ env_pkgs \in (IF env_exists THEN {{"python"} \cup r : r \in SUBSET RequiredPkgs}
                                   ELSE {{}})
    /\ condarc = <<>>
    /\ menu_dir \in (IF env_exists /\ envs_in_base THEN {"absent", "dir", "file"}
                                                   ELSE {"absent"})
    /\ repo_is_menu \in (IF menu_dir = "dir" THEN BOOLEAN ELSE {FALSE})
    /\ menu_files = (IF repo_is_menu THEN {SpecFile, ConfigFile} ELSE {})
    /\ shortcut_installed = FALSE
    /\ staged = {}

Init ==
    /\ system \in Systems
    /\ InitHost
    /\ pc = "shell"
    /\ remove_shortcut = FALSE
    /\ stack = <<>>
    /\ exc = NoExc
    /\ retval = RetNone
    /\ exit_code = NotExited
    /\ size_exp = 0
    /\ log = <<>>
    /\ calls = 0
    /\ pkgs_after = <<>>

\* The exception e leaves the function that is running.
Raises(e) ==
    /\ pc' = "raised"
    /\ exc' = e

\* The run goes on at p.
Goto(p) ==
    /\ pc' = p
    /\ exc' = exc

\* Lines 395-456: the script is started from the shell with its arguments.
StartRun ==
    /\ pc \in {"shell", "exited"}
    /\ stack = <<>>
    /\ remove_shortcut' \in BOOLEAN
    /\ pc' = "main"
    /\ exc' = NoExc
    /\ retval' = RetNone
    /\ exit_code' = NotExited
    /\ size_exp' = 0
    /\ log' = <<>>
    /\ UNCHANGED <<bvars, fixedVars, envVars, menuVars, driverVars, CONDA_PREFIX,
                   menuinst, shortcut_installed, stack>>

\* Line 313: if not in_base_env()
MainInBaseEnv ==
    /\ pc = "main"
    /\ LET r == in_base_env(CONDA_PREFIX, CONDA_EXE)
       IN  IF r.exc # NoExc THEN Raises(r.exc)
           ELSE Goto(IF r.val THEN "check_menuinst" ELSE "rerun")
    /\ UNCHANGED <<bvars, fixedVars, envVars, menuVars, driverVars, CONDA_PREFIX,
                   menuinst, shortcut_installed, remove_shortcut, stack, retval,
                   exit_code, size_exp, log>>

\* A slip for ChildArgv: the script is started again without its arguments.
ChildArgv_none(args) == {}

\* The arguments of the process that `<conda_exe> run ... python *argv` and
\* `python *argv` start.
ChildArgv(args) == args

\* A process starts the script again and waits for it.
Spawn(kind) ==
    /\ stack' = Append(stack, [kind |-> kind, remove |-> remove_shortcut,
                               prefix |-> CONDA_PREFIX])
    /\ remove_shortcut' = ("--remove" \in ChildArgv(argv))
    /\ log' = Append(log, Ev("spawn", kind, 0, FALSE, ChildArgv(argv)))
    /\ pc' = "main"
    /\ exc' = NoExc
    /\ retval' = RetNone
    /\ exit_code' = NotExited
    /\ size_exp' = 0

\* Lines 314-330: re-run the script in the base prefix with conda run.
Rerun ==
    /\ pc = "rerun"
    /\ Spawn("conda run")
    /\ CONDA_PREFIX' = "base"
    /\ UNCHANGED <<bvars, fixedVars, envVars, menuVars, driverVars, menuinst,
                   shortcut_installed>>

\* Line 333: elif not menuinst_gt_v2_present()
MainMenuinst ==
    /\ pc = "check_menuinst"
    /\ \E out \in ListOutcomes :
        LET r == menuinst_gt_v2_present(out, menuinst)
        IN  /\ log' = Append(log, Ev("run", "conda list base", out.rc, TRUE, {}))
            /\ IF r.exc # NoExc THEN Raises(r.exc)
               ELSE Goto(IF r.val THEN "meets_remove" ELSE "prompt")
    /\ UNCHANGED <<bvars, fixedVars, envVars, menuVars, driverVars, CONDA_PREFIX,
                   menuinst, shortcut_installed, remove_shortcut, stack, retval,
                   exit_code, size_exp>>

\* Line 334: the question, and what the answer leads to.
Prompt ==
    /\ pc = "prompt"
    /\ \E answer \in Answers :
        /\ log' = Append(log, Ev("input", "prompt", 0, FALSE, {answer}))
        /\ IF answer = "^C" THEN Raises(Raise("KeyboardInterrupt", 0))
           ELSE Goto(IF Lower(answer) \in {"y", "yes"} THEN "install_menuinst"
                                                        ELSE "returned")
    /\ UNCHANGED <<bvars, fixedVars, envVars, menuVars, driverVars, CONDA_PREFIX,
                   menuinst, shortcut_installed, remove_shortcut, stack, retval,
                   exit_code, size_exp>>

\* Lines 335-339: conda install menuinst>=2.0.0 in the base prefix (check=True).
InstallMenuinst ==
    /\ pc = "install_menuinst"
    /\ \E rc \in {0} \cup FailRCs :
        /\ log' = Append(log, Ev("run", "conda install menuinst", rc, TRUE,
                                 {"menuinst>=2.0.0"}))
        /\ IF rc # 0 THEN Raises(Raise("CalledProcessError", rc)) /\ menuinst' = menuinst
           ELSE Goto("rerun_python") /\ menuinst' = InstalledMenuinst
    /\ UNCHANGED <<bvars, fixedVars, envVars, menuVars, driverVars, CONDA_PREFIX,
                   shortcut_installed, remove_shortcut, stack, retval, exit_code,
                   size_exp>>

\* Line 341: run(["python", *argv], check=True)
RerunPython ==
    /\ pc = "rerun_python"
    /\ Spawn("python")
    /\ UNCHANGED <<bvars, fixedVars, envVars, menuVars, driverVars, CONDA_PREFIX,
                   menuinst, shortcut_installed>>

\* Lines 326-332 and 341: the script that was started again has exited. conda
\* run was called with check=False and its return code is main's value;
\* python was called with check=True.
ChildExit ==
    /\ pc = "exited"
    /\ stack # <<>>
    /\ LET top == stack[Len(stack)]
       IN  /\ stack' = SubSeq(stack, 1, Len(stack) - 1)
           /\ CONDA_PREFIX' = top.prefix
           /\ remove_shortcut' = top.remove
           /\ log' = Append(log, [frame |-> Frame - 1, kind |-> "run", what |-> top.kind,
                                  rc |-> exit_code, checked |-> (top.kind = "python"),
                                  args |-> argv])
           /\ IF top.kind = "conda run"
              THEN pc' = "returned" /\ exc' = NoExc /\ retval' = exit_code
              ELSE IF exit_code # 0
              THEN Raises(Raise("CalledProcessError", exit_code)) /\ retval' = RetNone
              ELSE pc' = "returned" /\ exc' = NoExc /\ retval' = RetNone
    /\ exit_code' = NotExited
    /\ size_exp' = 0
    /\ UNCHANGED <<bvars, fixedVars, envVars, menuVars, driverVars, menuinst,
                   shortcut_installed>>

\* meets_prerequisites(), lines 84-85, in a condition of main: the run goes
\* on at ptrue when it holds and at pfalse when it does not.
MeetsPrerequisites(ptrue, pfalse) ==
    LET b == in_base_env(CONDA_PREFIX, CONDA_EXE)
    IN  IF b.exc # NoExc THEN Raises(b.exc) /\ log' = log
        ELSE IF ~b.val THEN Goto(pfalse) /\ log' = log
        ELSE \E out \in ListOutcomes :
                LET r == menuinst_gt_v2_present(out, menuinst)
                IN  /\ log' = Append(log, Ev("run", "conda list base", out.rc, TRUE, {}))
                    /\ IF r.exc # NoExc THEN Raises(r.exc)
                       ELSE Goto(IF r.val THEN ptrue ELSE pfalse)

\* Line 342: elif meets_prerequisites() and remove_shortcut
MainMeetsRemove ==
    /\ pc = "meets_remove"
    /\ MeetsPrerequisites(IF remove_shortcut THEN "remove_paths" ELSE "meets_install",
                          "meets_install")
    /\ UNCHANGED <<bvars, fixedVars, envVars, menuVars, driverVars, CONDA_PREFIX,
                   menuinst, shortcut_installed, remove_shortcut, stack, retval,
                   exit_code, size_exp>>

\* Line 377: elif meets_prerequisites()
MainMeetsInstall ==
    /\ pc = "meets_install"
    /\ MeetsPrerequisites("ensure_env", "returned")
    /\ UNCHANGED <<bvars, fixedVars, envVars, menuVars, driverVars, CONDA_PREFIX,
                   menuinst, shortcut_installed, remove_shortcut, stack, retval,
                   exit_code, size_exp>>

\* Lines 454-469: exit with what main returned, or handle what it raised.
Exit ==
    /\ pc \in {"returned", "raised"}
    /\ exit_code' = ExitCode(exc, retval)
    /\ pc' = "exited"
    /\ UNCHANGED <<bvars, fixedVars, envVars, menuVars, driverVars, CONDA_PREFIX,
                   menuinst, shortcut_installed, remove_shortcut, stack, exc, retval,
                   size_exp, log>>

\* Lines 343-358: the paths of the remove branch; the icon's name is chosen
\* by platform. The log entry records the files the Menu directory holds.
RemovePaths ==
    /\ pc = "remove_paths"
    /\ log' = Append(log, Ev("step", "remove branch", 0, FALSE, menu_files))
    /\ IF system \notin SupportedSystems THEN Raises(Raise("RuntimeError", 0))
       ELSE Goto("remove_call")
    /\ UNCHANGED <<bvars, fixedVars, envVars, menuVars, driverVars, CONDA_PREFIX,
                   menuinst, shortcut_installed, remove_shortcut, stack, retval,
                   exit_code, size_exp>>

\* A call of menuinst.api succeeded (0) or raised (1).
ApiResults == {0, 1}

\* Lines 360-369: with the spec file in place, menuinst's remove is called and
\* whatever it raises is swallowed; without it an error is logged.
RemoveCall ==
    /\ pc = "remove_call"
    /\ IF menu_dir = "dir" /\ SpecFile \in menu_files
       THEN \E r \in ApiResults :
                /\ log' = Append(log, Ev("api", "remove", r, FALSE, menu_files \cap {SpecFile}))
                /\ shortcut_installed' = (IF r = 0 THEN FALSE ELSE shortcut_installed)
       ELSE /\ log' = Append(log, Ev("log", "no spec file", 0, FALSE, {}))
            /\ shortcut_installed' = shortcut_installed
    /\ Goto("clean_menu")
    /\ UNCHANGED <<bvars, fixedVars, envVars, menuVars, driverVars, CONDA_PREFIX,
                   menuinst, remove_shortcut, stack, retval, exit_code, size_exp>>

\* A slip for CleanMenu: unlink without missing_ok, which raises for a file
\* that is not there.
CleanMenu_strict ==
    /\ pc = "clean_menu"
    /\ IF menu_dir # "dir"
       THEN Goto("returned") /\ menu_files' = menu_files
       ELSE IF {ConfigFile, RemovedIcon(system), SpecFile} \subseteq menu_files
       THEN /\ Goto("returned")
            /\ menu_files' = menu_files \ {ConfigFile, RemovedIcon(system), SpecFile}
       ELSE /\ Raises(Raise("FileNotFoundError", 0))
            /\ menu_files' = menu_files \ {ConfigFile}
    /\ UNCHANGED <<bvars, fixedVars, envVars, driverVars, CONDA_PREFIX, menu_dir, staged,
                   menuinst, shortcut_installed, remove_shortcut, stack, retval,
                   exit_code, size_exp, log>>

\* Lines 371-375: unlink the config, the icon and the spec file.
CleanMenu ==
    /\ pc = "clean_menu"
    /\ menu_files' = IF menu_dir = "dir"
                     THEN menu_files \ {ConfigFile, RemovedIcon(system), SpecFile}
                     ELSE menu_files
    /\ Goto("returned")
    /\ UNCHANGED <<bvars, fixedVars, envVars, driverVars, CONDA_PREFIX, menu_dir, staged,
                   menuinst, shortcut_installed, remove_shortcut, stack, retval,
                   exit_code, size_exp, log>>

\* A slip for missing_pkgs: the required packages, whatever is installed.
missing_pkgs_all(pkgs) == RequiredPkgs

\* ensure_env, line 289: missing_pkgs
missing_pkgs(pkgs) == RequiredPkgs \ pkgs

\* What `conda list --json --name <env>` (check=False) may give on this host:
\* the package list of an environment that exists, an error object and a
\* non-zero return code for one that does not, or output that is not JSON.
EnvListOutcomes ==
    (IF env_exists THEN {[rc |-> 0, json |-> TRUE]}
                   ELSE {[rc |-> r, json |-> TRUE] : r \in FailRCs})
        \cup {[rc |-> r, json |-> FALSE] : r \in FailRCs}

\* ensure_env, lines 203-222 and 287-291: ask conda for the environment and
\* choose what to do.
EnsureList ==
    /\ pc = "ensure_env"
    /\ \E out \in EnvListOutcomes :
        /\ log' = Append(log, Ev("run", "conda list env", out.rc, FALSE, {}))
        /\ IF ~out.json \/ CONDA_EXE = "unset" THEN Raises(Raise("RuntimeError", 0))
           ELSE IF ~env_exists THEN Goto("ensure_create")
           ELSE IF missing_pkgs(env_pkgs) # {} THEN Goto("ensure_install")
           ELSE Goto("ensure_mkdir")
    /\ UNCHANGED <<bvars, fixedVars, envVars, menuVars, driverVars, CONDA_PREFIX,
                   menuinst, shortcut_installed, remove_shortcut, stack, retval,
                   exit_code, size_exp>>

\* ensure_env, lines 227-273: conda create with the fixed package set (check=True).
EnsureCreate ==
    /\ pc = "ensure_create"
    /\ \E rc \in {0} \cup FailRCs :
        /\ log' = Append(log, Ev("run", "conda create", rc, TRUE, CreatePkgs))
        /\ IF rc # 0
           THEN Raises(Raise("CalledProcessError", rc)) /\ UNCHANGED <<env_exists, env_pkgs>>
           ELSE Goto("ensure_condarc") /\ env_exists' = TRUE /\ env_pkgs' = CreatePkgs
    /\ UNCHANGED <<bvars, fixedVars, condarc, menuVars, driverVars, CONDA_PREFIX,
                   menuinst, shortcut_installed, remove_shortcut, stack, retval,
                   exit_code, size_exp>>

\* ensure_env, lines 275-283: write <base>/envs/<name>/.condarc.
EnsureCondarc ==
    /\ pc = "ensure_condarc"
    /\ IF envs_in_base THEN Goto("ensure_mkdir") /\ condarc' = CondarcText
       ELSE Raises(Raise("FileNotFoundError", 0)) /\ condarc' = condarc
    /\ UNCHANGED <<bvars, fixedVars, env_exists, env_pkgs, menuVars, driverVars,
                   CONDA_PREFIX, menuinst, shortcut_installed, remove_shortcut, stack,
                   retval, exit_code, size_exp, log>>

\* ensure_env, lines 286-305: conda install the missing packages (check=True).
EnsureInstall ==
    /\ pc = "ensure_install"
    /\ \E rc \in {0} \cup FailRCs :
        /\ log' = Append(log, Ev("run", "conda install", rc, TRUE, missing_pkgs(env_pkgs)))
        /\ IF rc # 0
           THEN Raises(Raise("CalledProcessError", rc)) /\ env_pkgs' = env_pkgs
           ELSE Goto("ensure_mkdir") /\ env_pkgs' = env_pkgs \cup missing_pkgs(env_pkgs)
    /\ UNCHANGED <<bvars, fixedVars, env_exists, condarc, menuVars, driverVars,
                   CONDA_PREFIX, menuinst, shortcut_installed, remove_shortcut, stack,
                   retval, exit_code, size_exp>>

\* ensure_env, lines 307-309: (env_prefix/"Menu").mkdir(exist_ok=True), which
\* needs env_prefix to exist and Menu not to be a file.
EnsureMkdir ==
    /\ pc = "ensure_mkdir"
    /\ IF ~envs_in_base
       THEN Raises(Raise("FileNotFoundError", 0)) /\ UNCHANGED <<menu_dir, log>>
       ELSE IF menu_dir = "file"
       THEN Raises(Raise("FileExistsError", 0)) /\ UNCHANGED <<menu_dir, log>>
       ELSE /\ Goto("ensure_returned")
            /\ menu_dir' = "dir"
            /\ log' = Append(log, Ev("step", "ensure_env", 0, FALSE, {}))
    /\ UNCHANGED <<bvars, fixedVars, envVars, menu_files, staged, driverVars,
                   CONDA_PREFIX, menuinst, shortcut_installed, remove_shortcut, stack,
                   retval, exit_code, size_exp>>

\* Lines 380-382: ensure_env returned to main, which calls stage_configs.
MainStage ==
    /\ pc = "ensure_returned"
    /\ Goto("download_icon")
    /\ UNCHANGED <<bvars, fixedVars, envVars, menuVars, driverVars, CONDA_PREFIX,
                   menuinst, shortcut_installed, remove_shortcut, stack, retval,
                   exit_code, size_exp, log>>

\* download_icon_file, lines 109-133: fetch the platform's icon and write it
\* to the Menu directory.
DownloadIcon ==
    /\ pc = "download_icon"
    /\ IF system \notin SupportedSystems
       THEN Raises(Raise("RuntimeError", 0)) /\ UNCHANGED <<menu_files, staged, size_exp>>
       ELSE \E fetched \in BOOLEAN :
            IF ~fetched
            THEN Raises(Raise("RuntimeError", 0)) /\ UNCHANGED <<menu_files, staged, size_exp>>
            ELSE LET icon == IconName(IconSuffix(system))
                 IN  /\ menu_files' = menu_files \cup {icon}
                     /\ staged' = staged \cup {icon}
                     /\ IF system = "Darwin" /\ IconSuffix(system) = ".svg"
                        THEN Goto("qlmanage") /\ size_exp' = SizeExpFirst
                        ELSE Goto("copy_configs") /\ size_exp' = size_exp
    /\ UNCHANGED <<bvars, fixedVars, envVars, menu_dir, driverVars, CONDA_PREFIX,
                   menuinst, shortcut_installed, remove_shortcut, stack, retval,
                   exit_code, log>>

\* svg_to_icns, lines 157-180: one thumbnail per size with qlmanage (check=True).
Qlmanage ==
    /\ pc = "qlmanage"
    /\ size_exp < SizeExpStop
    /\ \E rc \in {0} \cup FailRCs :
        /\ log' = Append(log, Ev("run", "qlmanage", rc, TRUE, {}))
        /\ IF rc # 0 THEN Raises(Raise("CalledProcessError", rc)) /\ size_exp' = size_exp
           ELSE /\ size_exp' = size_exp + 1
                /\ Goto(IF size_exp + 1 = SizeExpStop THEN "iconutil" ELSE "qlmanage")
    /\ UNCHANGED <<bvars, fixedVars, envVars, menuVars, driverVars, CONDA_PREFIX,
                   menuinst, shortcut_installed, remove_shortcut, stack, retval,
                   exit_code>>

\* svg_to_icns, lines 182-199: iconutil writes jupyterlab.icns (check=True) and
\* the SVG file is unlinked.
Iconutil ==
    /\ pc = "iconutil"
    /\ \E rc \in {0} \cup FailRCs :
        /\ log' = Append(log, Ev("run", "iconutil", rc, TRUE, {}))
        /\ IF rc # 0
           THEN Raises(Raise("CalledProcessError", rc)) /\ UNCHANGED <<menu_files, staged>>
           ELSE /\ Goto("copy_configs")
                /\ menu_files' = (menu_files \cup {IconName(".icns")}) \ {IconName(".svg")}
                /\ staged' = (staged \cup {IconName(".icns")}) \ {IconName(".svg")}
    /\ UNCHANGED <<bvars, fixedVars, envVars, menu_dir, driverVars, CONDA_PREFIX,
                   menuinst, shortcut_installed, remove_shortcut, stack, retval,
                   exit_code, size_exp>>

\* stage_configs, lines 99-106: copy the config and the spec file unless the
\* repository is the Menu directory.
CopyConfigs ==
    /\ pc = "copy_configs"
    /\ IF ~repo_is_menu
       THEN /\ menu_files' = menu_files \cup {ConfigFile, SpecFile}
            /\ staged' = staged \cup {ConfigFile, SpecFile}
       ELSE UNCHANGED <<menu_files, staged>>
    /\ log' = Append(log, Ev("step", "stage_configs", 0, FALSE, {}))
    /\ Goto("remove_old")
    /\ UNCHANGED <<bvars, fixedVars, envVars, menu_dir, driverVars, CONDA_PREFIX,
                   menuinst, shortcut_installed, remove_shortcut, stack, retval,
                   exit_code, size_exp>>

\* A slip for RemoveOld: install in an else clause, which a removal that
\* raised skips.
RemoveOld_else ==
    /\ pc = "remove_old"
    /\ \E r \in ApiResults :
        /\ log' = Append(log, Ev("api", "remove_old", r, FALSE, menu_files \cap {SpecFile}))
        /\ shortcut_installed' = (IF r = 0 THEN FALSE ELSE shortcut_installed)
        /\ Goto(IF r = 0 THEN "install" ELSE "returned")
    /\ UNCHANGED <<bvars, fixedVars, envVars, menuVars, driverVars, CONDA_PREFIX,
                   menuinst, remove_shortcut, stack, retval, exit_code, size_exp>>

\* Lines 384-388: try to remove the old shortcut; whatever is raised is swallowed.
RemoveOld ==
    /\ pc = "remove_old"
    /\ \E r \in ApiResults :
        /\ log' = Append(log, Ev("api", "remove_old", r, FALSE, menu_files \cap {SpecFile}))
        /\ shortcut_installed' = (IF r = 0 THEN FALSE ELSE shortcut_installed)
    /\ Goto("install")
    /\ UNCHANGED <<bvars, fixedVars, envVars, menuVars, driverVars, CONDA_PREFIX,
                   menuinst, remove_shortcut, stack, retval, exit_code, size_exp>>

\* Lines 389-392: the finally clause installs the new shortcut.
InstallShortcut ==
    /\ pc = "install"
    /\ \E r \in ApiResults :
        /\ log' = Append(log, Ev("api", "install", r, FALSE, menu_files \cap {SpecFile}))
        /\ IF r # 0 THEN Raises(Raise("Exception", 0)) /\ shortcut_installed' = shortcut_installed
           ELSE Goto("returned") /\ shortcut_installed' = TRUE
    /\ UNCHANGED <<bvars, fixedVars, envVars, menuVars, driverVars, CONDA_PREFIX,
                   menuinst, remove_shortcut, stack, retval, exit_code, size_exp>>

Next ==
    \/ StartRun
    \/ MainInBaseEnv
    \/ Rerun
    \/ MainMenuinst
    \/ Prompt
    \/ InstallMenuinst
    \/ RerunPython
    \/ ChildExit
    \/ MainMeetsRemove
    \/ RemovePaths
    \/ RemoveCall
    \/ CleanMenu
    \/ MainMeetsInstall
    \/ EnsureList
    \/ EnsureCreate
    \/ EnsureCondarc
    \/ EnsureInstall
    \/ EnsureMkdir
    \/ MainStage
    \/ DownloadIcon
    \/ Qlmanage
    \/ Iconutil
    \/ CopyConfigs
    \/ RemoveOld
    \/ InstallShortcut
    \/ Exit

Spec == Init /\ [][Next]_vars

(***************************************************************************)
(* ensure_env called directly, several times in succession                 *)
(***************************************************************************)

\* The number of calls of ensure_env in succession.
MaxCalls == 2

\* The environment as a caller of ensure_env sees it.
EnvState == [exists |-> env_exists, pkgs |-> env_pkgs]

InitEnsure ==
    /\ system = "Linux"
    /\ InitHost
    /\ pc = "caller"
    /\ remove_shortcut = FALSE
    /\ stack = <<>>
    /\ exc = NoExc
    /\ retval = RetNone
    /\ exit_code = NotExited
    /\ size_exp = 0
    /\ log = <<>>
    /\ calls = 0
    /\ pkgs_after = <<EnvState>>

\* Line 202: ensure_env(env_name) is called.
CallEnsureEnv ==
    /\ pc = "caller"
    /\ calls < MaxCalls
    /\ Goto("ensure_env")
    /\ UNCHANGED <<bvars, fixedVars, envVars, menuVars, driverVars, CONDA_PREFIX,
                   menuinst, shortcut_installed, remove_shortcut, stack, retval,
                   exit_code, size_exp, log>>

\* Line 309: ensure_env returned env_prefix to its caller.
EnsureEnvReturns ==
    /\ pc = "ensure_returned"
    /\ calls' = calls + 1
    /\ pkgs_after' = Append(pkgs_after, EnvState)
    /\ Goto("caller")
    /\ UNCHANGED <<bvars, fixedVars, envVars, menuVars, CONDA_PREFIX,
                   menuinst, shortcut_installed, remove_shortcut, stack, retval,
                   exit_code, size_exp, log>>

NextEnsure ==
    \/ CallEnsureEnv
    \/ EnsureList
    \/ EnsureCreate
    \/ EnsureCondarc
    \/ EnsureInstall
    \/ EnsureMkdir
    \/ EnsureEnvReturns

SpecEnsure == InitEnsure /\ [][NextEnsure]_vars

(***************************************************************************)
(* Claims about the browser resolver                                       *)
(***************************************************************************)

Browsers == {"Chrome", "Edge", "Brave", "Chromium"}

\* The executable's relative path that belongs to a browser on a platform;
\* the Windows branch names none for Chromium.
BrowserCmds(sys, b) ==
    {c \in {cmds(sys)[i] : i \in 1..Len(cmds(sys))} :
        c[Len(c)] \in
            (CASE b = "Chrome" -> {"chrome.exe", "google-chrome", "Google Chrome"}
               [] b = "Edge" -> {"msedge.exe", "microsoft-edge", "Microsoft Edge"}
               [] b = "Brave" -> {"brave.exe", "brave", "Brave Browser"}
               [] b = "Chromium" -> {"chromium", "Chromium"})}

\* The known install locations of a browser: under either Program Files
\* directory, in a directory of PATH, in the browser's own application bundle.
KnownLocations(sys, b, path) ==
    {JoinPath(pe, c) :
        pe \in (CASE sys = "Windows" -> {"ProgramFiles", "ProgramFiles(x86)"}
                  [] sys = "Linux" -> {path[i] : i \in 1..Len(path)}
                  [] sys = "Darwin" -> {AppBundle(c2) : c2 \in BrowserCmds(sys, b)}),
        c \in BrowserCmds(sys, b)}

\* The browser executables that exist: the candidates of the direct search.
ExistingBrowsers ==
    {f \in files : f[Len(f)] # "flatpak"}

SomeBrowserInstalled ==
    /\ system \in SupportedSystems
    /\ \E b \in Browsers : KnownLocations(system, b, PATH) \cap files # {}

ResolverDone == bpc = "done"

\* The Windows registry names a default browser that find_browser accepts.
RegistryAnswers ==
    /\ system = "Windows"
    /\ registry # NoKey
    /\ LooksLikeChromium(default_browser_cmd(registry), system)

\* The command holds the path of a browser executable that exists: one of the
\* candidates on disk, or the executable the registry names as the default
\* browser (a registered handler is taken to exist).
ContainsExistingPath(cmd) ==
    \/ \E f \in ExistingBrowsers : Contains(cmd, PathStr(f, system))
    \/ RegistryAnswers /\ Contains(cmd, default_browser_cmd(registry))

\* C1 as stated: with a browser at its known install location, the resolver
\* returns a command holding the exact path of an existing browser executable.
C1_ReturnsExistingPath ==
    (ResolverDone /\ SomeBrowserInstalled) =>
        (browser_cmd # None /\ ContainsExistingPath(browser_cmd))

\* C1, amended: with a browser at its known install location the resolver
\* always returns a command; it holds the exact path of an existing browser
\* executable unless the flatpak lookup (Linux) or the registry's default
\* browser (Windows) answered first, and then it is that answer.
C1_ReturnsCommand ==
    (ResolverDone /\ SomeBrowserInstalled) =>
        /\ browser_cmd # None
        /\ server_browser = browser_cmd
        /\ ~warned
        /\ CASE system = "Linux" /\ flatpak_cmd # None ->
                    \E i \in 1..Len(flatpak_apps) : browser_cmd = FlatpakCmd(flatpak_apps[i])
             [] RegistryAnswers ->
                    browser_cmd = QuotedCmd(default_browser_cmd(registry))
             [] OTHER ->
                    \E f \in ExistingBrowsers : browser_cmd = QuotedCmd(PathStr(f, system))

\* Only Brave is installed, in the second directory of PATH, and it is found.
C1_Witness ==
    /\ ResolverDone
    /\ system = "Linux"
    /\ Len(PATH) = 2
    /\ ExistingBrowsers = {<<PATH[2], "brave">>}
    /\ flatpak_cmd = None
    /\ browser_cmd = QuotedCmd(PathStr(<<PATH[2], "brave">>, system))

ResolverEnded == bpc \in {"done", "raised"}

\* No flatpak match, no candidate path that exists, no default browser that
\* the registry lookup accepts.
NoKnownBrowser ==
    /\ flatpak_cmd = None
    /\ ~RegistryAnswers
    /\ \/ system \notin SupportedSystems
       \/ FirstExisting(product(cmds(system), path_elements(system, PATH)), files, system) = None

\* C2: on a host without any known browser the resolver returns None, raises
\* nothing, and the warning branch is reached.
C2_NoBrowserNoException ==
    (ResolverEnded /\ NoKnownBrowser) =>
        (bexc = NoBExc /\ browser_cmd = None /\ warned)

\* Some line of the output, stripped, is a known application ID.
SomeLineKnown ==
    \E i \in 1..Len(flatpak_listed.lines), j \in 1..Len(flatpak_apps) :
        Strip(flatpak_listed.lines[i]) = <<flatpak_apps[j]>>

\* C3: on Linux with a launcher in PATH whose list subcommand succeeds and
\* prints a known application ID on any line, the resolver returns the
\* flatpak run command of a listed known ID whatever native browsers exist;
\* the direct search decides only when the flatpak lookup yields nothing.
C3_FlatpakFirst ==
    ResolverDone =>
        /\ (system = "Linux" /\ flatpak_bin # None /\ flatpak_listed.ok /\ SomeLineKnown) =>
                \E i \in 1..Len(flatpak_listed.lines), j \in 1..Len(flatpak_apps) :
                    /\ Strip(flatpak_listed.lines[i]) = <<flatpak_apps[j]>>
                    /\ browser_cmd = FlatpakCmd(flatpak_apps[j])
        /\ (flatpak_cmd # None) => (browser_cmd = flatpak_cmd /\ direct_cmd = None)

(***************************************************************************)
(* Claims about ensure_env                                                 *)
(***************************************************************************)

\* The conda create and conda install calls of the k-th call of ensure_env.
CondaChanges(k) ==
    {i \in 1..Len(log) :
        log[i].frame = k - 1 /\ log[i].what \in {"conda create", "conda install"}}

\* C4: ensure_env is idempotent: a call that follows a call that returned
\* leaves the installed package set as that call left it and issues neither
\* conda create nor conda install.
C4_EnsureEnvIdempotent ==
    \A k \in 2..calls :
        /\ pkgs_after[k + 1] = pkgs_after[k]
        /\ CondaChanges(k) = {}

\* ensure_env was called twice on a host without the environment: the first
\* call created it.
C4_Witness ==
    /\ calls = 2
    /\ ~pkgs_after[1].exists
    /\ pkgs_after[2] = [exists |-> TRUE, pkgs |-> CreatePkgs]
    /\ \E i \in CondaChanges(1) : log[i].what = "conda create"

\* C5: after ensure_env returned, an environment that was absent has been
\* created with the fixed package set and its .condarc pins conda-forge; in
\* one that was present exactly the missing required packages have been
\* installed; either way the environment holds the three required packages
\* and its Menu directory exists.
C5_EnsureEnvPostcondition ==
    \A k \in 1..calls :
        LET before == pkgs_after[k]
            after == pkgs_after[k + 1]
            missing == RequiredPkgs \ before.pkgs
        IN  /\ ~before.exists =>
                /\ CondaChanges(k) # {}
                /\ \A i \in CondaChanges(k) :
                    /\ log[i].what = "conda create"
                    /\ log[i].args = CreatePkgs
                    /\ log[i].rc = 0
                /\ after.pkgs = CreatePkgs
                /\ \E j \in 1..Len(condarc) : condarc[j] = "channels: [conda-forge]"
            /\ before.exists =>
                /\ (missing # {}) = (CondaChanges(k) # {})
                /\ \A i \in CondaChanges(k) :
                    /\ log[i].what = "conda install"
                    /\ log[i].args = missing
                    /\ log[i].rc = 0
                /\ after.pkgs = before.pkgs \cup missing
            /\ after.exists
            /\ RequiredPkgs \subseteq after.pkgs
            /\ menu_dir = "dir"

\* ensure_env returned for an environment that lacked two required packages.
C5_Witness ==
    /\ calls = 1
    /\ pkgs_after[1] = [exists |-> TRUE, pkgs |-> {"python", "jupyterlab"}]
    /\ pkgs_after[2].pkgs = {"python"} \cup RequiredPkgs
    /\ \E i \in CondaChanges(1) : log[i].args = {"nb_conda_kernels", "ipykernel"}

(***************************************************************************)
(* Claims about main and the exit code                                     *)
(***************************************************************************)

\* The entries the running process wrote to the log.
Own == {i \in 1..Len(log) : log[i].frame = Frame}

\* The running process took the remove branch of main.
InRemoveBranch == \E i \in Own : log[i].what = "remove branch"

\* No install run ever put a file into the Menu directory.
NeverCreated == staged = {} /\ ~repo_is_menu

\* C6: with prerequisites met, the remove branch of main on a supported
\* platform where no shortcut was ever created raises nothing and the process
\* completes with exit code 0; menuinst's remove is not called.
C6_RemoveNothingDoesNotRaise ==
    (InRemoveBranch /\ NeverCreated /\ system \in SupportedSystems) =>
        /\ menu_files = {}
        /\ exc = NoExc
        /\ pc # "raised"
        /\ pc = "exited" => exit_code = 0
        /\ \A i \in Own : log[i].kind # "api"
        /\ \A i \in Own : log[i].what = "remove branch" => log[i].args = {}

\* A remove run on macOS for an environment that does not exist has exited.
C6_Witness ==
    /\ InRemoveBranch /\ NeverCreated
    /\ system = "Darwin"
    /\ ~env_exists
    /\ menu_dir = "absent"
    /\ pc = "exited"
    /\ exit_code = 0
    /\ \E i \in Own : log[i].what = "no spec file"

\* The files a complete install run leaves in the Menu directory.
StagedFiles(sys) ==
    {SpecFile, ConfigFile, IconName(IF sys = "Darwin" THEN ".icns" ELSE IconSuffix(sys))}

\* The running process entered the remove branch with the files of an
\* install run in place.
InstallStaged ==
    \E i \in Own :
        /\ log[i].what = "remove branch"
        /\ StagedFiles(system) \subseteq (log[i].args \cap staged)

\* C7: after a remove run completed for an environment in which an install
\* run staged its files, none of the staged files remains in the Menu
\* directory, on every supported platform, and menuinst's remove was called
\* while the spec file was in place.
C7_RemoveLeavesNoStagedFile ==
    (system \in SupportedSystems /\ InstallStaged /\ pc = "exited" /\ exit_code = 0) =>
        /\ StagedFiles(system) \cap menu_files = {}
        /\ \E i \in Own : log[i].what = "remove" /\ log[i].args = {SpecFile}

\* The entries of the process at depth f.
Of(f) == {i \in 1..Len(log) : log[i].frame = f}

\* The entry at i is the last one its process wrote so far.
LastOf(i) == \A j \in (i + 1)..Len(log) : log[j].frame # log[i].frame

\* The entry at j is the next one of its process after the entry at i.
NextOf(i, j) ==
    /\ i < j
    /\ log[j].frame = log[i].frame
    /\ \A k \in (i + 1)..(j - 1) : log[k].frame # log[i].frame

\* C8: in the install branch main first ensures the environment, then stages
\* the files, then attempts to remove a prior shortcut, then installs the new
\* one: install is called once, right after the removal attempt, whether that
\* succeeded or raised, and never before staging completed.
C8_InstallBranchOrder ==
    /\ \A i \in 1..Len(log) : log[i].what = "install" =>
        /\ \E a, b, c \in Of(log[i].frame) :
            /\ a < b /\ b < c
            /\ log[a].what = "ensure_env"
            /\ log[b].what = "stage_configs"
            /\ log[c].what = "remove_old"
            /\ NextOf(c, i)
        /\ \A j \in Of(log[i].frame) : log[j].what = "install" => j = i
    /\ \A c \in 1..Len(log) : log[c].what = "remove_old" =>
        /\ \E b \in Of(log[c].frame) :
            b < c /\ log[b].what = "stage_configs" /\ NextOf(b, c)
        /\ \/ LastOf(c) /\ log[c].frame = Frame /\ pc = "install"
           \/ \E i \in Of(log[c].frame) : NextOf(c, i) /\ log[i].what = "install"
    /\ \A b \in 1..Len(log) : log[b].what = "stage_configs" =>
        \E a \in Of(log[b].frame) : a < b /\ log[a].what = "ensure_env"
    /\ (pc \in {"remove_old", "install"} /\ ~repo_is_menu) =>
        {SpecFile, ConfigFile, IconName(IF system = "Darwin" THEN ".icns" ELSE IconSuffix(system))}
            \subseteq menu_files

\* The removal of the old shortcut raised and the new one was installed.
C8_Witness ==
    \E c, i \in 1..Len(log) :
        /\ log[c].what = "remove_old" /\ log[c].rc = 1
        /\ NextOf(c, i)
        /\ log[i].what = "install" /\ log[i].rc = 0
        /\ pc = "returned"

\* The process at depth f was asked and accepted before the entry at i, and
\* then installed menuinst.
AcceptedBefore(i) ==
    \E j, k \in Of(log[i].frame) :
        /\ j < k /\ k < i
        /\ log[j].kind = "input" /\ \E a \in log[j].args : Lower(a) \in {"y", "yes"}
        /\ log[k].what = "conda install menuinst" /\ log[k].rc = 0

\* The script that was started again got the arguments of the one that
\* started it.
SameArguments ==
    \A k \in 1..Len(stack) :
        stack[k].remove = (IF k = Len(stack) THEN remove_shortcut ELSE stack[k + 1].remove)

\* A process that found the prerequisites unmet calls neither install nor
\* remove of menuinst.
NoShortcutCallWhenUnmet ==
    \A i, j \in 1..Len(log) :
        (log[i].kind \in {"spawn", "input"} /\ log[j].frame = log[i].frame)
            => log[j].kind # "api"

\* C9 as the specification states it: whenever the script starts itself again
\* it has prompted the user, who accepted, and has installed the prerequisite.
C9_PromptsBeforeRerun ==
    /\ \A i \in 1..Len(log) : log[i].kind = "spawn" => AcceptedBefore(i)
    /\ pc = "rerun" => \E i \in Own : log[i].kind = "input"
    /\ SameArguments
    /\ NoShortcutCallWhenUnmet

\* C9: outside the base environment main starts itself again with conda run
\* without asking; in the base environment with menuinst's check false it
\* prompts, and on acceptance installs menuinst and then starts itself again;
\* the arguments are passed on, and the process that found the prerequisites
\* unmet calls neither install nor remove.
C9_RerunWhenUnmet ==
    /\ \A i \in 1..Len(log) : log[i].kind = "spawn" =>
        IF log[i].what = "python" THEN AcceptedBefore(i)
        ELSE \A j \in Of(log[i].frame) :
                j <= i => log[j].kind # "input" /\ log[j].what # "conda install menuinst"
    /\ \A j \in 1..Len(log) : log[j].kind = "input" =>
        IF \E a \in log[j].args : Lower(a) \in {"y", "yes"}
        THEN \/ LastOf(j) /\ log[j].frame = Frame /\ pc = "install_menuinst"
             \/ \E k \in Of(log[j].frame) :
                    NextOf(j, k) /\ log[k].what = "conda install menuinst"
        ELSE LastOf(j)
    /\ \A k \in 1..Len(log) : log[k].what = "conda install menuinst" =>
        IF log[k].rc = 0
        THEN \/ LastOf(k) /\ log[k].frame = Frame /\ pc = "rerun_python"
             \/ \E i \in Of(log[k].frame) :
                    NextOf(k, i) /\ log[i].kind = "spawn" /\ log[i].what = "python"
        ELSE LastOf(k)
    /\ pc = "rerun" => CONDA_PREFIX \notin {"base", "unset"}
    /\ pc = "prompt" => CONDA_PREFIX = "base"
    /\ SameArguments
    /\ NoShortcutCallWhenUnmet

\* A remove run outside the base environment started itself again with conda
\* run, was asked there, accepted, installed menuinst and started itself again.
C9_Witness ==
    /\ Len(stack) = 2
    /\ stack[1].kind = "conda run" /\ stack[2].kind = "python"
    /\ stack[1].remove /\ remove_shortcut
    /\ pc = "remove_paths"

\* A call of a program the script waits for.
IsRun(i) == log[i].kind = "run"

\* C10 as the specification states it: a subprocess of the process that
\* returned non-zero stopped it, and its return code is the exit code; any
\* other error gives exit code 1.
C10_ExitCodeOfAnyFailure ==
    pc = "exited" =>
        /\ (exc # NoExc /\ exc.type # "CalledProcessError") => exit_code = 1
        /\ (exc = NoExc \/ exc.type = "CalledProcessError") =>
            \A i \in Own : (IsRun(i) /\ log[i].rc # 0) =>
                LastOf(i) /\ exit_code = log[i].rc

\* C10: a subprocess run with check=True, or the script started again with
\* conda run, that returned non-zero stopped the process, and its return code
\* is the exit code; any other error gives exit code 1; a non-zero return
\* code of the query for the target environment (check=False) stops nothing.
C10_ExitCode ==
    pc = "exited" =>
        /\ \A i \in Own : (IsRun(i) /\ log[i].rc # 0 /\ log[i].what # "conda list env") =>
            LastOf(i) /\ exit_code = log[i].rc
        /\ (exc # NoExc /\ exc.type # "CalledProcessError") => exit_code = 1
        /\ (exc = NoExc /\ \A i \in Own : IsRun(i) /\ log[i].what # "conda list env"
                                            => log[i].rc = 0)
            => exit_code = 0
        /\ \A i \in Own : (log[i].what = "conda list env" /\ log[i].rc # 0 /\ ~LastOf(i))
            => \E j \in Own : NextOf(i, j) /\ log[j].what = "conda create"

\* The script started with conda run failed in qlmanage with code 3, and 3 is
\* the exit code of the process the user started.
C10_Witness ==
    /\ pc = "exited"
    /\ stack = <<>>
    /\ exit_code = 3
    /\ \E i \in Own : LastOf(i) /\ log[i].what = "conda run" /\ log[i].rc = 3
    /\ \E j \in 1..Len(log) : log[j].what = "qlmanage" /\ log[j].rc = 3

(***************************************************************************)
(* Claims about cancellation                                               *)
(***************************************************************************)

\* The entry at j is the prompt of line 334 and the user did not accept:
\* the answer is not y or yes, or the prompt was interrupted.
Cancelled(j) ==
    /\ log[j].kind = "input"
    /\ \A a \in log[j].args : Lower(a) \notin {"y", "yes"}

\* C11: when the user cancels, by interrupting the prompt or by declining
\* it, the process exits with code 1 and calls neither install nor remove.
C11_CancelExitsWithOne ==
    pc = "exited" =>
        \A j \in Own : Cancelled(j) =>
            /\ exit_code = 1
            /\ \A i \in Own : log[i].kind # "api"

(***************************************************************************)
(* Claims about the order of the direct search                             *)
(***************************************************************************)

\* find_browser was called and returned.
FindBrowserReturned ==
    /\ system \in SupportedSystems
    /\ flatpak_cmd = None
    /\ bpc \in {"configure", "done"}

\* The roots of the platform's branch, in the order the branch lists them.
SearchRoots == path_elements(system, PATH)

\* The path of the browser of priority i under the j-th root.
CandidateAt(i, j) == JoinPath(SearchRoots[j], cmds(system)[i])

\* The positions of the candidates that exist on disk.
ExistingAt ==
    {p \in (1..Len(cmds(system))) \X (1..Len(SearchRoots)) :
        CandidateAt(p[1], p[2]) \in files}

\* Browser priority first, root second.
NotAfter(p, q) == p[1] < q[1] \/ (p[1] = q[1] /\ p[2] <= q[2])

\* The value returned is the command of the existing candidate that comes
\* first in the order.
ReturnsFirstInOrder ==
    \E p \in ExistingAt :
        /\ \A q \in ExistingAt : NotAfter(p, q)
        /\ direct_cmd = QuotedCmd(PathStr(CandidateAt(p[1], p[2]), system))

\* C12 as the specification states it: when a candidate exists find_browser
\* returns the command of the first existing one, by browser priority and
\* then by root, whatever the system's default browser is.
C12_FirstExistingInOrder ==
    (FindBrowserReturned /\ ExistingAt # {}) => ReturnsFirstInOrder

\* C12: on Windows, when the registry's default http handler looks like a
\* Chromium browser, find_browser returns that command without searching;
\* otherwise it returns the command of the first existing candidate, by
\* browser priority and then by root, and None when no candidate exists.
C12_FirstExistingUnlessDefault ==
    FindBrowserReturned =>
        IF RegistryAnswers THEN direct_cmd = QuotedCmd(default_browser_cmd(registry))
        ELSE IF ExistingAt # {} THEN ReturnsFirstInOrder
        ELSE direct_cmd = None

\* Chrome is in the second directory of PATH and Edge in the first: Chrome's
\* command is returned.
C12_Witness ==
    /\ FindBrowserReturned
    /\ system = "Linux"
    /\ Len(PATH) = 2
    /\ ExistingAt = {<<1, 2>>, <<2, 1>>}
    /\ direct_cmd = QuotedCmd(PathStr(<<PATH[2], "google-chrome">>, system))

====
